---------------------------- MODULE Spec2Model ----------------------------
(***************************************************************************)
(* A state-machine model of script.js, the interaction layer of the        *)
(* LuminaFlow marketing page.  Each feature of the script (accordion,      *)
(* contact form, lightbox, pricing toggle, theme toggle, scroll-triggered  *)
(* reveal and counters) is a group of variables with one action per event  *)
(* handler.  The markup the script reads (attributes, presence of optional *)
(* elements) is chosen in Init and never changes afterwards.               *)
(***************************************************************************)
EXTENDS Integers, Sequences, FiniteSets, TLC

(***************************************************************************)
(* Bounds of the model.                                                    *)
(***************************************************************************)
NumTriggers == 3
NumCards == 2
NumThumbs == 3
MaxInFlight == 2
NumAnimated == 2
NumStats == 2
MaxStarts == 2
NumNavLinks == 2

(***************************************************************************)
(* State.  "markup" variables are read from the document and never change. *)
(***************************************************************************)
\* FAQ accordion
VARIABLES
    ariaControls,    \* markup: trigger -> id of the panel it controls, NoPanel if none resolves
    triggerId,       \* markup: trigger -> its id attribute
    scrollHeight,    \* markup/layout: panel -> measured content height
    ariaExpanded,    \* trigger -> "true" | "false"
    panelHidden,     \* panel -> aria-hidden: "true" | "false" | "" (attribute never set)
    maxHeight,       \* panel -> style.maxHeight, "" while never set
    openAccordionId, \* id of the expanded trigger, Null if none
    lastClicked,     \* history: the trigger activated last, NoTrigger before any click
    prevClicked      \* history: the trigger activated before that one

\* Theme toggle
VARIABLES
    markupTheme,     \* markup: data-theme of <html> as served, Null if absent
    hasThemeToggle,  \* markup: a .theme-toggle element exists
    hasThemeIcon,    \* markup: a .theme-icon element exists
    dataTheme,       \* current data-theme attribute of <html>, Null if absent
    storedTheme,     \* localStorage['luminaflow-theme'], Null if the key is not set
    themeIconText,   \* textContent of .theme-icon
    selectedTheme,   \* history: the theme last selected with the toggle, Null if none yet
    themeEvent       \* history: "load" | "toggle" | "reload", the latest theme step

\* Pricing toggle
VARIABLES
    card,            \* markup: card -> which elements and data attributes it has
    btnActive,       \* billing button -> it has class is-active
    btnPressed,      \* billing button -> aria-pressed
    amountText,      \* card -> textContent of its .amount
    ctaHref,         \* card -> href of its .plan-cta
    cycleText,       \* card -> textContent of its .cycle
    billing,         \* history: argument of the latest updatePricing call
    billingEvent     \* history: "load", or what the latest billing click hit:
                     \* "active" (the option already active) | "inactive"

\* Lightbox
VARIABLES
    lightboxEls,         \* markup: which of .lightbox, -image, -caption, -close exist
    lightboxAriaHidden,  \* aria-hidden of .lightbox
    lightboxSrc,         \* src of .lightbox-image
    lightboxAlt,         \* alt of .lightbox-image
    lightboxCaptionText, \* textContent of .lightbox-caption
    lastFocusedElement,  \* the script's variable, Null until the first open
    activeElement,       \* document.activeElement
    bodyOverflow,        \* document.body.style.overflow
    focusBeforeOpen      \* history: activeElement when the lightbox last went closed -> open

\* Contact form
VARIABLES
    hasStatusEl,     \* markup: the form has a .form-status element
    hasErrorSlot,    \* markup: field -> it sits in a .form-field with a .field-error
    defaultValue,    \* markup: field -> its value attribute, what reset() restores
    fieldValue,      \* field -> its current value
    fieldError,      \* field -> textContent of its .field-error
    statusText,      \* textContent of .form-status
    nFetch,          \* submit handlers suspended at `await fetch(...)`, abort timer armed
    nWait,           \* submit handlers suspended at the 600 ms fallback wait
    formEvent        \* history: what the latest form handler (or continuation) did

\* Scroll-triggered reveal and counters
VARIABLES
    prefersReducedMotion, \* the media query, read once at load
    delayAttr,       \* markup: [data-animate] element -> data-animate-delay (digits, <<>> if absent)
    isVisible,       \* [data-animate] element -> it has class is-visible
    revealObserved,  \* [data-animate] element -> the reveal observer observes it
    transitionDelay, \* [data-animate] element -> style.transitionDelay, "" while never set
    targetAttr,      \* markup: .stat-value element -> data-target (digits, <<>> if absent)
    counterText,     \* .stat-value element -> textContent
    counterObserved, \* .stat-value element -> counterObserver observes it
    framePending,    \* .stat-value element -> a requestAnimationFrame(step) is scheduled
    elapsed,         \* .stat-value element -> currentTime - startTime of its latest frame
    startCount       \* history: .stat-value element -> calls of animateCounter

\* Mobile menu
VARIABLES
    hasNavToggle,    \* markup: a .nav-toggle element exists
    hasMobileMenu,   \* markup: a .mobile-menu element exists
    hasPrimaryNav,   \* markup: a .primary-nav ul element exists
    navLinkCount,    \* markup: number of links in the primary navigation
    menuItemCount,   \* focusable elements inside .mobile-menu, in document order
    navAriaExpanded, \* aria-expanded of .nav-toggle, Null if absent
    navIsActive,     \* .nav-toggle has class is-active
    menuIsOpen,      \* .mobile-menu has class is-open
    keyPrevented,    \* the latest Tab keydown had preventDefault() called on it
    menuEvent        \* history: the latest menu step: "load" | "toggle" | "tab" |
                     \* "shiftTab" | "focus" | a link click, "linkOpen" on the open
                     \* menu and "linkClosed" on the closed one

accVars == <<ariaControls, triggerId, scrollHeight, ariaExpanded, panelHidden,
             maxHeight, openAccordionId, lastClicked, prevClicked>>
themeVars == <<markupTheme, hasThemeToggle, hasThemeIcon, dataTheme, storedTheme,
               themeIconText, selectedTheme, themeEvent>>
pricingVars == <<card, btnActive, btnPressed, amountText, ctaHref, cycleText, billing,
                 billingEvent>>

lightboxVars == <<lightboxEls, lightboxAriaHidden, lightboxSrc, lightboxAlt,
                  lightboxCaptionText, lastFocusedElement, activeElement, bodyOverflow,
                  focusBeforeOpen>>

formVars == <<hasStatusEl, hasErrorSlot, defaultValue, fieldValue, fieldError, statusText,
              nFetch, nWait, formEvent>>

motionVars == <<prefersReducedMotion, delayAttr, isVisible, revealObserved, transitionDelay,
                targetAttr, counterText, counterObserved, framePending, elapsed,
                startCount>>

menuVars == <<hasNavToggle, hasMobileMenu, hasPrimaryNav, navLinkCount, menuItemCount,
              navAriaExpanded, navIsActive, menuIsOpen, keyPrevented, menuEvent>>

vars == <<accVars, themeVars, pricingVars, lightboxVars, formVars, motionVars, menuVars>>

(* What a handler of one group leaves alone: every other group.            *)
exceptAccordion == <<themeVars, pricingVars, lightboxVars, formVars, motionVars, menuVars>>
exceptTheme == <<accVars, pricingVars, lightboxVars, formVars, motionVars, menuVars>>
exceptPricing == <<accVars, themeVars, lightboxVars, formVars, motionVars, menuVars>>
exceptLightbox == <<accVars, themeVars, pricingVars, formVars, motionVars, menuVars>>
exceptForm == <<accVars, themeVars, pricingVars, lightboxVars, motionVars, menuVars>>
exceptMotion == <<accVars, themeVars, pricingVars, lightboxVars, formVars, menuVars>>
(* The menu handlers move the focus; the rest of the lightbox is left.     *)
exceptMenu == <<accVars, themeVars, pricingVars, formVars, motionVars,
                lightboxEls, lightboxAriaHidden, lightboxSrc, lightboxAlt,
                lightboxCaptionText, lastFocusedElement, bodyOverflow, focusBeforeOpen>>

(* String(b) of a JavaScript boolean, as written into aria-* attributes.   *)
BoolStr(b) == IF b THEN "true" ELSE "false"

(* `${n}px` *)
Px(n) == ToString(n) \o "px"

(***************************************************************************)
(* FAQ accordion (script.js 204-255).                                      *)
(***************************************************************************)
Null == "null"
NoPanel == 0
NoTrigger == 0
Triggers == 1..NumTriggers
Panels == 1..NumTriggers
(* Measured panel heights: all empty, all alike, or all different.         *)
ScrollHeights ==
    {[p \in Panels |-> 0], [p \in Panels |-> 120], [p \in Panels |-> 40 * p]}

(* The mutable part of the accordion as one record, so that                *)
(* setAccordionState can be applied several times within one handler.      *)
AccState == [expanded |-> ariaExpanded, hidden |-> panelHidden,
             maxHeight |-> maxHeight, openId |-> openAccordionId]

(* setAccordionState that leaves the height of a collapsed panel alone.    *)
setAccordionStateKeepsHeight(a, trigger, expanded) ==
    LET panel == ariaControls[trigger]
        a1 == [a EXCEPT !.expanded[trigger] = BoolStr(expanded)]
    IN  IF panel = NoPanel THEN a1
        ELSE LET a2 == [a1 EXCEPT !.hidden[panel] = BoolStr(~expanded)]
             IN  IF expanded
                 THEN [a2 EXCEPT !.maxHeight[panel] = Px(scrollHeight[panel]),
                                 !.openId = triggerId[trigger]]
                 ELSE [a2 EXCEPT !.openId = IF a2.openId = triggerId[trigger]
                                            THEN Null ELSE a2.openId]

setAccordionState(a, trigger, expanded) ==
    LET panel == ariaControls[trigger]
        a1 == [a EXCEPT !.expanded[trigger] = BoolStr(expanded)]
    IN  IF panel = NoPanel THEN a1
        ELSE LET a2 == [a1 EXCEPT !.hidden[panel] = BoolStr(~expanded)]
             IN  IF expanded
                 THEN [a2 EXCEPT !.maxHeight[panel] = Px(scrollHeight[panel]),
                                 !.openId = triggerId[trigger]]
                 ELSE [a2 EXCEPT !.maxHeight[panel] = "0px",
                                 !.openId = IF a2.openId = triggerId[trigger]
                                            THEN Null ELSE a2.openId]

(* accordionTriggers.forEach((other) => { if (other !== trigger) ... }),   *)
(* in document order from trigger i on.                                    *)
RECURSIVE CollapseOthers(_, _, _)
CollapseNone(a, trigger, i) == a

CollapseOthers(a, trigger, i) ==
    IF i > NumTriggers THEN a
    ELSE CollapseOthers(IF i # trigger THEN setAccordionState(a, i, FALSE) ELSE a,
                        trigger, i + 1)

(* The load loop (225-226): setAccordionState(trigger, false) for every    *)
(* trigger, in document order.                                             *)
RECURSIVE LoadAccordion(_, _)
LoadAccordion(a, i) ==
    IF i > NumTriggers THEN a
    ELSE LoadAccordion(setAccordionState(a, i, FALSE), i + 1)

AccordionLoaded(controls, ids, heights, markupExpanded) ==
    /\ ariaControls = controls
    /\ triggerId = ids
    /\ scrollHeight = heights
    /\ LET a == LoadAccordion([expanded |-> markupExpanded,
                               hidden |-> [p \in Panels |-> ""],
                               maxHeight |-> [p \in Panels |-> ""],
                               openId |-> Null], 1)
       IN  /\ ariaExpanded = a.expanded
           /\ panelHidden = a.hidden
           /\ maxHeight = a.maxHeight
           /\ openAccordionId = a.openId
    /\ lastClicked = NoTrigger
    /\ prevClicked = NoTrigger

(* Markup: every trigger controls any panel or none; ids are unique or     *)
(* missing; aria-expanded may be preset in the markup.                     *)
InitAccordion ==
    \E controls \in [Triggers -> Panels \cup {NoPanel}],
       ids \in {[t \in Triggers |-> "faq-" \o ToString(t)], [t \in Triggers |-> ""]},
       heights \in ScrollHeights,
       markupExpanded \in {[t \in Triggers |-> "false"], [t \in Triggers |-> "true"]} :
        AccordionLoaded(controls, ids, heights, markupExpanded)

IdleAccordion ==
    AccordionLoaded([t \in Triggers |-> t], [t \in Triggers |-> "faq-" \o ToString(t)],
                    [p \in Panels |-> 120], [t \in Triggers |-> "false"])

(* The click handler of one trigger (227-235).                             *)
AccordionClick(trigger) ==
    LET isExpanded == ariaExpanded[trigger] = "true"
        a == setAccordionState(CollapseOthers(AccState, trigger, 1), trigger, ~isExpanded)
    IN  /\ ariaExpanded' = a.expanded
        /\ panelHidden' = a.hidden
        /\ maxHeight' = a.maxHeight
        /\ openAccordionId' = a.openId
        /\ lastClicked' = trigger
        /\ prevClicked' = lastClicked
        /\ UNCHANGED <<ariaControls, triggerId, scrollHeight>>
        /\ UNCHANGED exceptAccordion

(***************************************************************************)
(* Theme toggle (script.js 75-93).                                         *)
(***************************************************************************)
MarkupThemes == {Null, "", "light", "dark", "auto"}
StoredThemes == {Null, "light", "dark"}
Moon == "moon"
Sun == "sun"

ThemeState == [attr |-> dataTheme, stored |-> storedTheme, icon |-> themeIconText]

applyTheme(th, theme) ==
    [th EXCEPT !.attr = theme,
               !.stored = theme,
               !.icon = IF hasThemeIcon THEN (IF theme = "dark" THEN Moon ELSE Sun) ELSE @]

(* initialTheme || 'light': null and the empty string are falsy.           *)
InitialTheme(attr) == IF attr = Null \/ attr = "" THEN "light" ELSE attr

(* The script's top level for the theme (84, 91-92), run on the served     *)
(* markup with whatever an earlier visit left in storage: the initial      *)
(* theme is read from the attribute of the markup only.                    *)
LoadTheme(markup, prior) ==
    LET th0 == [attr |-> markup, stored |-> prior, icon |-> ""]
    IN  IF hasThemeToggle THEN applyTheme(th0, InitialTheme(markup)) ELSE th0

ThemeLoaded(markup, toggle, icon, prior) ==
    /\ markupTheme = markup
    /\ hasThemeToggle = toggle
    /\ hasThemeIcon = icon
    /\ LET th == LoadTheme(markup, prior)
       IN  /\ dataTheme = th.attr
           /\ storedTheme = th.stored
           /\ themeIconText = th.icon
    /\ selectedTheme = Null
    /\ themeEvent = "load"

InitTheme ==
    \E markup \in MarkupThemes, toggle \in BOOLEAN, icon \in BOOLEAN,
       prior \in StoredThemes :
        ThemeLoaded(markup, toggle, icon, prior)

IdleTheme == ThemeLoaded("light", TRUE, TRUE, Null)

(* The click handler of .theme-toggle (85-89).                             *)
ThemeToggleClick ==
    /\ hasThemeToggle
    /\ LET currentTheme == IF dataTheme = "dark" THEN "dark" ELSE "light"
           nextTheme == IF currentTheme = "dark" THEN "light" ELSE "dark"
           th == applyTheme(ThemeState, nextTheme)
       IN  /\ dataTheme' = th.attr
           /\ storedTheme' = th.stored
           /\ themeIconText' = th.icon
           /\ selectedTheme' = nextTheme
    /\ themeEvent' = "toggle"
    /\ UNCHANGED <<markupTheme, hasThemeToggle, hasThemeIcon>>
    /\ UNCHANGED exceptTheme

(* The page is loaded again: the document is rebuilt from the markup, the  *)
(* storage is kept, and the script's top level runs again (84, 91-92).     *)
(* The other features are rebuilt to their load state, in which they are.  *)
ThemeReload ==
    /\ LET th == LoadTheme(markupTheme, storedTheme)
       IN  /\ dataTheme' = th.attr
           /\ storedTheme' = th.stored
           /\ themeIconText' = th.icon
    /\ themeEvent' = "reload"
    /\ UNCHANGED <<markupTheme, hasThemeToggle, hasThemeIcon, selectedTheme>>
    /\ UNCHANGED exceptTheme

(***************************************************************************)
(* Pricing toggle (script.js 162-202).                                     *)
(***************************************************************************)
Undefined == "undefined"
Cycles == {"monthly", "yearly"}
Cards == 1..NumCards
(* The two .toggle-option buttons, named by their data-billing.            *)
Buttons == Cycles
FullCard == [amount |-> TRUE, cta |-> TRUE, cycle |-> TRUE,
             price |-> [monthly |-> "29", yearly |-> "24"],
             link |-> [monthly |-> "/checkout?plan=m", yearly |-> "/checkout?plan=y"]]
CardMarkups ==
    { FullCard,
      [FullCard EXCEPT !.cta = FALSE],
      [FullCard EXCEPT !.amount = FALSE, !.cycle = FALSE],
      [FullCard EXCEPT !.price["yearly"] = Undefined],
      [FullCard EXCEPT !.link["yearly"] = ""] }

PricingState == [active |-> btnActive, pressed |-> btnPressed, amount |-> amountText,
                 href |-> ctaHref, cycle |-> cycleText]

(* if (price): undefined and the empty string are falsy.                   *)
Truthy(v) == v # Undefined /\ v # ""

CycleSuffix(b) == IF b = "yearly" THEN "/mo billed yearly" ELSE "/mo"

updatePricingKeepHref(ps, b) ==
    [active |-> [btn \in Buttons |-> btn = b],
     pressed |-> [btn \in Buttons |-> BoolStr(btn = b)],
     amount |-> [c \in Cards |->
                   IF card[c].amount /\ card[c].cta /\ Truthy(card[c].price[b])
                   THEN card[c].price[b] ELSE ps.amount[c]],
     href |-> ps.href,
     cycle |-> [c \in Cards |-> IF card[c].cycle THEN CycleSuffix(b) ELSE ps.cycle[c]]]

updatePricing(ps, b) ==
    [active |-> [btn \in Buttons |-> btn = b],
     pressed |-> [btn \in Buttons |-> BoolStr(btn = b)],
     amount |-> [c \in Cards |->
                   IF card[c].amount /\ card[c].cta /\ Truthy(card[c].price[b])
                   THEN card[c].price[b] ELSE ps.amount[c]],
     href |-> [c \in Cards |->
                 IF card[c].amount /\ card[c].cta /\ Truthy(card[c].link[b])
                 THEN card[c].link[b] ELSE ps.href[c]],
     cycle |-> [c \in Cards |-> IF card[c].cycle THEN CycleSuffix(b) ELSE ps.cycle[c]]]

(* Markup as served: no button active, placeholder texts; then the         *)
(* script's updatePricing('monthly') (201).                                *)
PricingLoaded(cards) ==
    /\ card = cards
    /\ billing = "monthly"
    /\ billingEvent = "load"
    /\ LET ps0 == [active |-> [btn \in Buttons |-> FALSE],
                   pressed |-> [btn \in Buttons |-> ""],
                   amount |-> [c \in Cards |-> IF cards[c].amount THEN "--" ELSE Null],
                   href |-> [c \in Cards |-> IF cards[c].cta THEN "#" ELSE Null],
                   cycle |-> [c \in Cards |-> IF cards[c].cycle THEN "" ELSE Null]]
           ps == updatePricing(ps0, "monthly")
       IN  /\ btnActive = ps.active
           /\ btnPressed = ps.pressed
           /\ amountText = ps.amount
           /\ ctaHref = ps.href
           /\ cycleText = ps.cycle

InitPricing == \E cards \in [Cards -> CardMarkups] : PricingLoaded(cards)

IdlePricing == PricingLoaded([c \in Cards |-> FullCard])

(* A handler that flips the billing cycle on every click.                  *)
BillingClickFlips(btn) ==
    /\ LET other == CHOOSE b \in Cycles : b # btn
           ps == updatePricing(PricingState, IF btnActive[btn] THEN other ELSE btn)
       IN  /\ btnActive' = ps.active
           /\ btnPressed' = ps.pressed
           /\ amountText' = ps.amount
           /\ ctaHref' = ps.href
           /\ cycleText' = ps.cycle
           /\ billing' = IF btnActive[btn] THEN other ELSE btn
    /\ billingEvent' = IF btnActive[btn] THEN "active" ELSE "inactive"
    /\ UNCHANGED card
    /\ UNCHANGED exceptPricing

(* The click handler of one .toggle-option (196-199).                      *)
BillingClick(btn) ==
    /\ billingEvent' = IF btnActive[btn] THEN "active" ELSE "inactive"
    /\ IF btnActive[btn]
       THEN UNCHANGED <<btnActive, btnPressed, amountText, ctaHref, cycleText, billing>>
       ELSE LET ps == updatePricing(PricingState, btn)
            IN  /\ btnActive' = ps.active
                /\ btnPressed' = ps.pressed
                /\ amountText' = ps.amount
                /\ ctaHref' = ps.href
                /\ cycleText' = ps.cycle
                /\ billing' = btn
    /\ UNCHANGED card
    /\ UNCHANGED exceptPricing

(***************************************************************************)
(* Lightbox (script.js 257-313).                                           *)
(***************************************************************************)
Thumbs == 1..NumThumbs
(* The [data-lightbox] thumbnails; each gets tabindex="0" at load (312).   *)
ThumbEl(i) == "img" \o ToString(i)
ImgSrc(i) == "assets/gallery-" \o ToString(i) \o ".svg"
ImgAlt(i) == "Screenshot " \o ToString(i)
(* data-lightbox: the caption; the first thumbnail has an empty one.       *)
ImgCaption(i) == IF i = 1 THEN "" ELSE "Caption " \o ToString(i)

CloseEl == "close"   \* .lightbox-close
LinkEl == "link"     \* some other focusable element of the page
BodyEl == "body"     \* document.body: activeElement when nothing has focus

AllEls == [lightbox |-> TRUE, image |-> TRUE, caption |-> TRUE, close |-> TRUE]
LightboxMarkups ==
    { AllEls,
      [AllEls EXCEPT !.close = FALSE],
      [AllEls EXCEPT !.caption = FALSE],
      [AllEls EXCEPT !.image = FALSE],
      [lightbox |-> FALSE, image |-> FALSE, caption |-> FALSE, close |-> FALSE] }

(* Elements focus() can move focus to: body is an HTMLElement but has no   *)
(* tab stop, so body.focus() leaves the focus where it is.                 *)
Focusable == {ThumbEl(i) : i \in Thumbs} \cup {LinkEl}
             \cup (IF lightboxEls.close THEN {CloseEl} ELSE {})

LightboxState == [hidden |-> lightboxAriaHidden, src |-> lightboxSrc, alt |-> lightboxAlt,
                  caption |-> lightboxCaptionText, last |-> lastFocusedElement,
                  active |-> activeElement, overflow |-> bodyOverflow]

openLightbox(lb, img) ==
    IF ~(lightboxEls.lightbox /\ lightboxEls.image /\ lightboxEls.caption) THEN lb
    ELSE [lb EXCEPT !.last = lb.active,
                    !.src = ImgSrc(img),
                    !.alt = ImgAlt(img),
                    !.caption = ImgCaption(img),
                    !.hidden = "false",
                    !.active = IF lightboxEls.close THEN CloseEl ELSE @,
                    !.overflow = "hidden"]

(* hideLightbox that leaves the page scroll-locked.                        *)
hideLightboxKeepsLock(lb) ==
    IF ~lightboxEls.lightbox THEN lb
    ELSE [lb EXCEPT !.hidden = "true",
                    !.src = IF lightboxEls.image THEN "" ELSE @,
                    !.alt = IF lightboxEls.image THEN "" ELSE @,
                    !.active = IF lb.last # Null /\ lb.last \in Focusable
                               THEN lb.last ELSE @]

hideLightbox(lb) ==
    IF ~lightboxEls.lightbox THEN lb
    ELSE [lb EXCEPT !.hidden = "true",
                    !.overflow = "",
                    !.src = IF lightboxEls.image THEN "" ELSE @,
                    !.alt = IF lightboxEls.image THEN "" ELSE @,
                    !.active = IF lb.last # Null /\ lb.last \in Focusable
                               THEN lb.last ELSE @]

SetLightbox(lb, focused) ==
    /\ lightboxAriaHidden' = lb.hidden
    /\ lightboxSrc' = lb.src
    /\ lightboxAlt' = lb.alt
    /\ lightboxCaptionText' = lb.caption
    /\ lastFocusedElement' = lb.last
    /\ activeElement' = lb.active
    /\ bodyOverflow' = lb.overflow
    /\ focusBeforeOpen' = IF lightboxAriaHidden # "false" /\ lb.hidden = "false"
                          THEN focused ELSE focusBeforeOpen
    /\ UNCHANGED lightboxEls
    /\ UNCHANGED exceptLightbox

LightboxLoaded(els) ==
    /\ lightboxEls = els
    /\ lightboxAriaHidden = IF els.lightbox THEN "true" ELSE Null
    /\ lightboxSrc = IF els.image THEN "" ELSE Null
    /\ lightboxAlt = IF els.image THEN "" ELSE Null
    /\ lightboxCaptionText = IF els.caption THEN "" ELSE Null
    /\ lastFocusedElement = Null
    /\ activeElement = BodyEl
    /\ bodyOverflow = ""
    /\ focusBeforeOpen = Null

InitLightbox == \E els \in LightboxMarkups : LightboxLoaded(els)

IdleLightbox == LightboxLoaded(AllEls)

(* The user moves the focus (Tab, Shift+Tab, a click elsewhere); nothing   *)
(* in the script keeps the focus inside the open lightbox.                 *)
FocusMove(el) ==
    /\ el # activeElement
    /\ activeElement' = el
    /\ UNCHANGED <<lightboxEls, lightboxAriaHidden, lightboxSrc, lightboxAlt,
                   lightboxCaptionText, lastFocusedElement, bodyOverflow, focusBeforeOpen>>
    /\ UNCHANGED exceptLightbox

(* A click on a thumbnail (305).  The thumbnail has a tab stop, so the     *)
(* click focuses it before the handler runs; the open overlay covers the   *)
(* page, so the thumbnails are clicked only while it is closed.            *)
ThumbClick(img) ==
    /\ lightboxAriaHidden # "false"
    /\ SetLightbox(openLightbox([LightboxState EXCEPT !.active = ThumbEl(img)], img),
                   ThumbEl(img))

(* Enter or Space on the focused thumbnail (306-311).                      *)
ThumbKey(img) ==
    /\ activeElement = ThumbEl(img)
    /\ SetLightbox(openLightbox(LightboxState, img), activeElement)

(* A click on .lightbox-close (296); the click focuses the button.         *)
CloseClick ==
    /\ lightboxEls.close
    /\ SetLightbox(hideLightbox([LightboxState EXCEPT !.active = CloseEl]), CloseEl)

(* A click on .lightbox itself, the backdrop (289-293); the backdrop has   *)
(* no tab stop, so the click leaves nothing focused.                       *)
BackdropClick ==
    /\ lightboxEls.lightbox
    /\ SetLightbox(hideLightbox([LightboxState EXCEPT !.active = BodyEl]), BodyEl)

(* Escape anywhere in the document (297-301).                              *)
EscapeKey ==
    SetLightbox(IF lightboxEls.lightbox /\ lightboxAriaHidden = "false"
                THEN hideLightbox(LightboxState) ELSE LightboxState, activeElement)

(***************************************************************************)
(* Contact form (script.js 315-398).                                       *)
(***************************************************************************)
(* The controls of the form, in document order: contactForm.name, .email  *)
(* and .message (360-362).                                                 *)
FieldSeq == <<"name", "email", "message">>
Fields == {FieldSeq[i] : i \in 1..Len(FieldSeq)}

(* What the user can have typed into each field.                           *)
FieldValues(f) ==
    CASE f = "name" -> {"", "Ada"}
      [] f = "email" -> {"", "ada", "ada@example.org"}
      [] f = "message" -> {"", "h", "hello"}

(* The browser's constraint validation, field.validity (331-337): every    *)
(* field is required, email is type=email, message has a minimum length.   *)
Validity(f, v) ==
    IF v = "" THEN "valueMissing"
    ELSE IF f = "email" /\ v = "ada" THEN "typeMismatch"
    ELSE IF f = "message" /\ v = "h" THEN "tooShort"
    ELSE "valid"

SendingMsg == "Sending..."
SuccessMsg == "Message sent! We will reach out shortly. (Demo response)"
FailureMsg == "Something went wrong. Please try again later. (Demo response)"

FormState == [value |-> fieldValue, error |-> fieldError, status |-> statusText]

setFieldError(fs, field, message) ==
    IF hasErrorSlot[field] THEN [fs EXCEPT !.error[field] = message] ELSE fs

validateField(fs, field) ==
    LET validity == Validity(field, fs.value[field])
    IN  IF validity = "valid" THEN setFieldError(fs, field, "")
        ELSE IF validity = "valueMissing"
             THEN setFieldError(fs, field, "This field is required.")
        ELSE IF validity = "typeMismatch"
             THEN setFieldError(fs, field, "Please enter a valid value.")
        ELSE setFieldError(fs, field, "Please correct this field.")

(* fields.forEach((field) => { if (!validateField(field)) isValid = false }) *)
RECURSIVE ValidateAll(_, _)
ValidateAll(fs, i) ==
    IF i > Len(FieldSeq) THEN fs
    ELSE ValidateAll(validateField(fs, FieldSeq[i]), i + 1)

IsValidAlways(fs) == TRUE

IsValid(fs) == \A f \in Fields : Validity(f, fs.value[f]) = "valid"

(* fields.forEach((field) => setFieldError(field, '')) *)
RECURSIVE ClearErrors(_, _)
ClearErrors(fs, i) ==
    IF i > Len(FieldSeq) THEN fs
    ELSE ClearErrors(setFieldError(fs, FieldSeq[i], ""), i + 1)

(* The end of the submit handler (388-396), with the value of `success`.   *)
FinishSubmitNoReset(fs, success) ==
    IF ~hasStatusEl THEN fs
    ELSE IF success THEN [fs EXCEPT !.status = SuccessMsg]
    ELSE [fs EXCEPT !.status = FailureMsg]

FinishSubmitSilent(fs, success) ==
    IF ~hasStatusEl \/ ~success THEN fs
    ELSE ClearErrors([fs EXCEPT !.status = SuccessMsg, !.value = defaultValue], 1)

FinishSubmit(fs, success) ==
    IF ~hasStatusEl THEN fs
    ELSE IF success
         THEN ClearErrors([fs EXCEPT !.status = SuccessMsg, !.value = defaultValue], 1)
    ELSE [fs EXCEPT !.status = FailureMsg]

SetForm(fs) ==
    /\ fieldValue' = fs.value
    /\ fieldError' = fs.error
    /\ statusText' = fs.status
    /\ UNCHANGED <<hasStatusEl, hasErrorSlot, defaultValue>>
    /\ UNCHANGED exceptForm

FormLoaded(status, slots, defaults) ==
    /\ hasStatusEl = status
    /\ hasErrorSlot = slots
    /\ defaultValue = defaults
    /\ fieldValue = defaults
    /\ fieldError = [f \in Fields |-> IF slots[f] THEN "" ELSE Null]
    /\ statusText = IF status THEN "" ELSE Null
    /\ nFetch = 0
    /\ nWait = 0
    /\ formEvent = "load"

InitForm ==
    \E status \in BOOLEAN,
       slots \in {[f \in Fields |-> TRUE], [f \in Fields |-> f # "name"]},
       defaults \in {[f \in Fields |-> ""], [f \in Fields |-> IF f = "name" THEN "Ada" ELSE ""]} :
        FormLoaded(status, slots, defaults)

IdleForm == FormLoaded(TRUE, [f \in Fields |-> TRUE], [f \in Fields |-> ""])

(* The input handler of one field (345-347): the user has typed value.     *)
FieldInput(field, value) ==
    /\ value # fieldValue[field]
    /\ SetForm(validateField([FormState EXCEPT !.value[field] = value], field))
    /\ formEvent' = "input"
    /\ UNCHANGED <<nFetch, nWait>>

(* The submit handler up to its first await (349-379): validation, and     *)
(* for a valid form 'Sending...', the abort timer and the fetch.           *)
FormSubmit ==
    LET fs == ValidateAll(FormState, 1)
    IN  IF ~IsValid(FormState)
        THEN /\ SetForm(fs)
             /\ formEvent' = "invalid"
             /\ UNCHANGED <<nFetch, nWait>>
        ELSE /\ nFetch + nWait < MaxInFlight
             /\ SetForm(IF hasStatusEl THEN [fs EXCEPT !.status = SendingMsg] ELSE fs)
             /\ formEvent' = "sent"
             /\ nFetch' = nFetch + 1
             /\ UNCHANGED nWait

(* The fetch resolves with a response (380-381); the handler runs to its   *)
(* end (388-396).                                                          *)
FetchResolve(ok) ==
    /\ nFetch > 0
    /\ nFetch' = nFetch - 1
    /\ SetForm(FinishSubmit(FormState, ok))
    /\ formEvent' = IF ok THEN "responseOk" ELSE "responseNotOk"
    /\ UNCHANGED nWait

(* A catch block that reports the failure at once, without the fallback.   *)
FetchRejectReportsFailure ==
    /\ nFetch > 0
    /\ nFetch' = nFetch - 1
    /\ UNCHANGED nWait
    /\ formEvent' = "catch"
    /\ SetForm(FinishSubmit(FormState, FALSE))

(* The fetch rejects (network error): the catch block clears the abort     *)
(* timer and starts the 600 ms wait (382-384).                             *)
FetchReject ==
    /\ nFetch > 0
    /\ nFetch' = nFetch - 1
    /\ nWait' = nWait + 1
    /\ formEvent' = "catch"
    /\ SetForm(FormState)

AbortTimeoutNever == FALSE /\ UNCHANGED vars

(* The 1500 ms timer fires while the fetch is pending (370):               *)
(* controller.abort() rejects the fetch, and the catch block runs.         *)
AbortTimeout ==
    /\ nFetch > 0
    /\ nFetch' = nFetch - 1
    /\ nWait' = nWait + 1
    /\ formEvent' = "catch"
    /\ SetForm(FormState)

(* The 600 ms wait is over (384-385): success = Math.random() > 0.3, and   *)
(* the handler runs to its end (388-396).                                  *)
FallbackDone(success) ==
    /\ nWait > 0
    /\ nWait' = nWait - 1
    /\ SetForm(FinishSubmit(FormState, success))
    /\ formEvent' = IF success THEN "fallbackOk" ELSE "fallbackFailed"
    /\ UNCHANGED nFetch

(***************************************************************************)
(* Scroll animations and counter animations (script.js 95-160).            *)
(***************************************************************************)
Animated == 1..NumAnimated   \* the [data-animate] elements
Stats == 1..NumStats         \* the .stat-value elements

(* A numeric attribute is a sequence of decimal digits.                    *)
DelayAttrs == {<<>>, <<2, 0, 0>>}
TargetAttrs == {<<>>, <<7>>, <<1, 2, 0, 0>>}

(* The value of a decimal numeral, digit by digit.                         *)
RECURSIVE DigitsValue(_, _)
DigitsValue(digits, acc) ==
    IF digits = <<>> THEN acc
    ELSE DigitsValue(Tail(digits), 10 * acc + Head(digits))

(* parseInt(delay, 10) *)
parseInt(attr) == DigitsValue(attr, 0)

(* Number(el.dataset.target || 0): a missing or empty attribute is 0.      *)
Number(attr) == IF attr = <<>> THEN 0 ELSE DigitsValue(attr, 0)

(* value.toLocaleString(): groups of three digits separated by commas.     *)
Pad3(n) == IF n < 10 THEN "00" \o ToString(n)
           ELSE IF n < 100 THEN "0" \o ToString(n) ELSE ToString(n)

RECURSIVE toLocaleString(_)
toLocaleString(n) ==
    IF n < 1000 THEN ToString(n)
    ELSE toLocaleString(n \div 1000) \o "," \o Pad3(n % 1000)

duration == 1600
(* Milliseconds between two frames of one counter.                         *)
FrameDts == {400, 1200}
(* Math.floor of a product computed in floating point can fall one below   *)
(* the floor of the exact product.                                         *)
Drifts == {0, 1}

MotionState == [visible |-> isVisible, observed |-> revealObserved,
                delay |-> transitionDelay, text |-> counterText,
                cobserved |-> counterObserved, pending |-> framePending,
                elapsed |-> elapsed, starts |-> startCount]

SetMotion(ms) ==
    /\ isVisible' = ms.visible
    /\ revealObserved' = ms.observed
    /\ transitionDelay' = ms.delay
    /\ counterText' = ms.text
    /\ counterObserved' = ms.cobserved
    /\ framePending' = ms.pending
    /\ elapsed' = ms.elapsed
    /\ startCount' = ms.starts
    /\ UNCHANGED <<prefersReducedMotion, delayAttr, targetAttr>>
    /\ UNCHANGED exceptMotion

(* animateCounter(el) (125-148), up to its requestAnimationFrame.          *)
animateCounterAlwaysAnimated(ms, el) ==
    [ms EXCEPT !.starts[el] = @ + 1, !.pending[el] = TRUE, !.elapsed[el] = 0]

animateCounter(ms, el) ==
    LET target == Number(targetAttr[el])
        started == [ms EXCEPT !.starts[el] = @ + 1]
    IN  IF prefersReducedMotion
        THEN [started EXCEPT !.text[el] = toLocaleString(target)]
        ELSE [started EXCEPT !.pending[el] = TRUE, !.elapsed[el] = 0]

(* One frame: step(currentTime) (131-141), with currentTime - startTime    *)
(* = time.  start is 0: step is scheduled only without reduced motion.     *)
stepNoSnap(ms, el, time, drift) ==
    LET target == Number(targetAttr[el])
        t == IF time < duration THEN time ELSE duration
        easedNum == IF 2 * t < duration THEN 2 * t * t
                    ELSE (4 * duration - 2 * t) * t - duration * duration
        \* the inner division is exact: frame times are multiples of 400
        exact == (target * (easedNum \div duration)) \div duration
        value == IF exact - drift < 0 THEN 0 ELSE exact - drift
        shown == [ms EXCEPT !.text[el] = toLocaleString(value), !.elapsed[el] = time]
    IN  IF t < duration /\ ~prefersReducedMotion
        THEN shown
        ELSE [shown EXCEPT !.pending[el] = FALSE]

step(ms, el, time, drift) ==
    LET target == Number(targetAttr[el])
        t == IF time < duration THEN time ELSE duration
        \* progress = t / duration; eased = easedNum / duration^2
        easedNum == IF 2 * t < duration THEN 2 * t * t
                    ELSE (4 * duration - 2 * t) * t - duration * duration
        \* the inner division is exact: frame times are multiples of 400
        exact == (target * (easedNum \div duration)) \div duration
        value == IF exact - drift < 0 THEN 0 ELSE exact - drift
        shown == [ms EXCEPT !.text[el] = toLocaleString(value), !.elapsed[el] = time]
    IN  IF t < duration /\ ~prefersReducedMotion
        THEN shown
        ELSE [shown EXCEPT !.text[el] = toLocaleString(target), !.pending[el] = FALSE]

(* The script's top level (96-120, 123-160) on the served markup.          *)
MotionLoaded(reduced, delays, targets) ==
    /\ prefersReducedMotion = reduced
    /\ delayAttr = delays
    /\ targetAttr = targets
    /\ isVisible = [e \in Animated |-> reduced]
    /\ revealObserved = [e \in Animated |-> ~reduced]
    /\ transitionDelay = [e \in Animated |-> ""]
    /\ counterText = [el \in Stats |-> "0"]
    /\ counterObserved = [el \in Stats |-> TRUE]
    /\ framePending = [el \in Stats |-> FALSE]
    /\ elapsed = [el \in Stats |-> 0]
    /\ startCount = [el \in Stats |-> 0]

InitMotion ==
    \E reduced \in BOOLEAN,
       delays \in {[e \in Animated |-> <<>>], [e \in Animated |-> <<2, 0, 0>>]},
       targets \in {[el \in Stats |-> <<>>], [el \in Stats |-> <<7>>],
                    [el \in Stats |-> <<1, 2, 0, 0>>],
                    [el \in Stats |-> IF el = 1 THEN <<1, 2, 0, 0>> ELSE <<7>>]} :
        MotionLoaded(reduced, delays, targets)

IdleMotion ==
    MotionLoaded(FALSE, [e \in Animated |-> <<>>], [el \in Stats |-> <<7>>])

(* A callback that toggles the class and keeps observing the element.      *)
RevealIntersectToggles(el) ==
    /\ revealObserved[el]
    /\ SetMotion([MotionState EXCEPT
                    !.delay[el] = IF delayAttr[el] # <<>>
                                  THEN ToString(parseInt(delayAttr[el])) \o "ms" ELSE @,
                    !.visible[el] = ~@])

(* The reveal observer reports an observed element as intersecting         *)
(* (101-112).                                                              *)
RevealIntersect(el) ==
    /\ revealObserved[el]
    /\ SetMotion([MotionState EXCEPT
                    !.delay[el] = IF delayAttr[el] # <<>>
                                  THEN ToString(parseInt(delayAttr[el])) \o "ms" ELSE @,
                    !.visible[el] = TRUE,
                    !.observed[el] = FALSE])

(* counterObserver reports an observed element as intersecting (150-156).  *)
CounterIntersect(el) ==
    /\ counterObserved[el]
    /\ startCount[el] < MaxStarts
    /\ SetMotion([animateCounter(MotionState, el) EXCEPT !.cobserved[el] = FALSE])

(* The browser runs the scheduled step of one counter, dt after its        *)
(* previous frame.                                                         *)
CounterFrame(el, dt, drift) ==
    /\ framePending[el]
    /\ SetMotion(step(MotionState, el, elapsed[el] + dt, drift))

(***************************************************************************)
(* Mobile menu (script.js 20-50) and its focus trap (418-436).             *)
(***************************************************************************)
ToggleEl == "navToggle"
MenuItemEl(i) == "menuItem" \o ToString(i)
NavAriaMarkups == {Null, "false"}

MenuState == [expanded |-> navAriaExpanded, active |-> navIsActive, open |-> menuIsOpen]

(* closeMobileMenu that closes the menu and forgets the toggle button.     *)
closeMobileMenuForgetsToggle(m) ==
    IF ~hasMobileMenu THEN m ELSE [m EXCEPT !.open = FALSE]

(* closeMobileMenu with a toggle() where the code has remove().            *)
closeMobileMenuToggles(m) ==
    IF ~hasMobileMenu THEN m
    ELSE [m EXCEPT !.open = ~@,
                   !.expanded = IF hasNavToggle THEN "false" ELSE @,
                   !.active = IF hasNavToggle THEN ~@ ELSE @]

closeMobileMenu(m) ==
    IF ~hasMobileMenu THEN m
    ELSE [m EXCEPT !.open = FALSE,
                   !.expanded = IF hasNavToggle THEN "false" ELSE @,
                   !.active = IF hasNavToggle THEN FALSE ELSE @]

SetMenu(m) ==
    /\ navAriaExpanded' = m.expanded
    /\ navIsActive' = m.active
    /\ menuIsOpen' = m.open
    /\ UNCHANGED <<hasNavToggle, hasMobileMenu, hasPrimaryNav, navLinkCount, menuItemCount>>
    /\ UNCHANGED exceptMenu

(* The menu is served empty and closed; the script fills it with one       *)
(* link per primary-navigation link and the "Get Started" link (21-26).    *)
MenuLoaded(toggle, menu, nav, links, expanded) ==
    /\ hasNavToggle = toggle
    /\ hasMobileMenu = menu
    /\ hasPrimaryNav = nav
    /\ navLinkCount = IF nav THEN links ELSE 0
    /\ menuItemCount = IF menu /\ nav THEN links + 1 ELSE 0
    /\ navAriaExpanded = IF toggle THEN expanded ELSE Null
    /\ navIsActive = FALSE
    /\ menuIsOpen = FALSE
    /\ keyPrevented = FALSE
    /\ menuEvent = "load"

InitMenu ==
    \E toggle \in BOOLEAN, menu \in BOOLEAN, nav \in BOOLEAN,
       links \in 0..NumNavLinks, expanded \in NavAriaMarkups :
        MenuLoaded(toggle, menu, nav, links, expanded)

IdleMenu == MenuLoaded(TRUE, TRUE, TRUE, NumNavLinks, "false")

MenuFocusable ==
    {MenuItemEl(i) : i \in 1..menuItemCount} \cup (IF hasNavToggle THEN {ToggleEl} ELSE {})

(* The user or the browser moves the focus: a click elsewhere, or the      *)
(* default action of a Tab keydown that no handler suppressed.             *)
MenuFocusMove(el) ==
    /\ el # activeElement
    /\ activeElement' = el
    /\ keyPrevented' = keyPrevented
    /\ menuEvent' = "focus"
    /\ SetMenu(MenuState)

(* The click handler of .nav-toggle (38-43); the click may focus the       *)
(* button or not, depending on the browser.                                *)
NavToggleClick(focuses) ==
    /\ hasNavToggle /\ hasMobileMenu
    /\ LET isOpen == navAriaExpanded = "true"
       IN  SetMenu([expanded |-> BoolStr(~isOpen),
                    active |-> ~navIsActive,
                    open |-> ~menuIsOpen])
    /\ activeElement' = IF focuses THEN ToggleEl ELSE activeElement
    /\ keyPrevented' = keyPrevented
    /\ menuEvent' = "toggle"

(* The click handler of .mobile-menu (45-49) for a click on one of its     *)
(* links, which the click focuses.                                         *)
MenuLinkClick(i) ==
    /\ hasNavToggle /\ hasMobileMenu
    /\ i \in 1..menuItemCount
    /\ SetMenu(closeMobileMenu(MenuState))
    /\ activeElement' = MenuItemEl(i)
    /\ keyPrevented' = keyPrevented
    /\ menuEvent' = IF menuIsOpen THEN "linkOpen" ELSE "linkClosed"

(* A trap that wraps in one direction only.                                *)
TrapFocusForwardOnly(shiftKey) ==
    IF ~(hasMobileMenu /\ hasNavToggle) \/ ~menuIsOpen \/ menuItemCount = 0
    THEN [focus |-> activeElement, prevented |-> FALSE]
    ELSE IF ~shiftKey /\ activeElement = MenuItemEl(menuItemCount)
    THEN [focus |-> MenuItemEl(1), prevented |-> TRUE]
    ELSE [focus |-> activeElement, prevented |-> FALSE]

(* The document keydown handler for Tab (420-435): where the focus is      *)
(* after the handler and whether it called preventDefault().               *)
TrapFocus(shiftKey) ==
    IF ~(hasMobileMenu /\ hasNavToggle) \/ ~menuIsOpen \/ menuItemCount = 0
    THEN [focus |-> activeElement, prevented |-> FALSE]
    ELSE IF shiftKey /\ activeElement = MenuItemEl(1)
    THEN [focus |-> MenuItemEl(menuItemCount), prevented |-> TRUE]
    ELSE IF ~shiftKey /\ activeElement = MenuItemEl(menuItemCount)
    THEN [focus |-> MenuItemEl(1), prevented |-> TRUE]
    ELSE [focus |-> activeElement, prevented |-> FALSE]

(* A Tab (or Shift+Tab) keydown reaches the document.                      *)
TabKey(shiftKey) ==
    /\ LET r == TrapFocus(shiftKey)
       IN  /\ activeElement' = r.focus
           /\ keyPrevented' = r.prevented
    /\ menuEvent' = IF shiftKey THEN "shiftTab" ELSE "tab"
    /\ SetMenu(MenuState)

(***************************************************************************)
(* Specifications, one per group of handlers; the other groups rest in a   *)
(* fixed loaded state.                                                     *)
(***************************************************************************)
InitAccordionPage == InitAccordion /\ IdleTheme /\ IdlePricing /\ IdleLightbox /\ IdleForm /\ IdleMotion /\ IdleMenu

NextAccordion == \E trigger \in Triggers : AccordionClick(trigger)

SpecAccordion == InitAccordionPage /\ [][NextAccordion]_vars

InitToggles == InitTheme /\ InitPricing /\ IdleAccordion /\ IdleLightbox /\ IdleForm /\ IdleMotion /\ IdleMenu

NextToggles ==
    \/ ThemeToggleClick
    \/ \E btn \in Buttons : BillingClick(btn)

SpecToggles == InitToggles /\ [][NextToggles]_vars

InitThemePage == InitTheme /\ IdlePricing /\ IdleAccordion /\ IdleLightbox /\ IdleForm /\ IdleMotion /\ IdleMenu

NextTheme ==
    \/ ThemeToggleClick
    \/ ThemeReload

SpecTheme == InitThemePage /\ [][NextTheme]_vars

InitMenuPage ==
    InitMenu /\ IdleAccordion /\ IdleTheme /\ IdlePricing /\ IdleLightbox /\ IdleForm
             /\ IdleMotion

NextMenu ==
    \/ \E el \in MenuFocusable \cup {BodyEl} : MenuFocusMove(el)
    \/ \E focuses \in BOOLEAN : NavToggleClick(focuses)
    \/ \E i \in 1..(NumNavLinks + 1) : MenuLinkClick(i)
    \/ \E shiftKey \in BOOLEAN : TabKey(shiftKey)

SpecMenu == InitMenuPage /\ [][NextMenu]_vars

InitLightboxPage == InitLightbox /\ IdleAccordion /\ IdleTheme /\ IdlePricing /\ IdleForm /\ IdleMotion /\ IdleMenu

NextLightbox ==
    \/ \E el \in Focusable \cup {BodyEl} : FocusMove(el)
    \/ \E img \in Thumbs : ThumbClick(img)
    \/ \E img \in Thumbs : ThumbKey(img)
    \/ CloseClick
    \/ BackdropClick
    \/ EscapeKey

SpecLightbox == InitLightboxPage /\ [][NextLightbox]_vars

InitFormPage == InitForm /\ IdleAccordion /\ IdleTheme /\ IdlePricing /\ IdleLightbox /\ IdleMotion /\ IdleMenu

NextForm ==
    \/ \E field \in Fields : \E value \in FieldValues(field) : FieldInput(field, value)
    \/ FormSubmit
    \/ \E ok \in BOOLEAN : FetchResolve(ok)
    \/ FetchReject
    \/ AbortTimeout
    \/ \E success \in BOOLEAN : FallbackDone(success)

SpecForm == InitFormPage /\ [][NextForm]_vars

(* The timers of a submit handler fire: the abort timer while its fetch is *)
(* pending, the fallback timer once it waits.                              *)
SpecFormFair ==
    /\ SpecForm
    /\ WF_vars(AbortTimeout)
    /\ WF_vars(\E success \in BOOLEAN : FallbackDone(success))

InitMotionPage ==
    InitMotion /\ IdleAccordion /\ IdleTheme /\ IdlePricing /\ IdleLightbox /\ IdleForm
               /\ IdleMenu

NextMotion ==
    \/ \E el \in Animated : RevealIntersect(el)
    \/ \E el \in Stats : CounterIntersect(el)
    \/ \E el \in Stats : \E dt \in FrameDts : \E drift \in Drifts : CounterFrame(el, dt, drift)

SpecMotion == InitMotionPage /\ [][NextMotion]_vars

(* The counters alone, every [data-animate] element resting unrevealed or  *)
(* (with reduced motion) revealed at load.                                 *)
InitCountersPage ==
    /\ InitMotionPage
    /\ delayAttr = [e \in Animated |-> <<>>]

NextCounters ==
    \/ \E el \in Stats : CounterIntersect(el)
    \/ \E el \in Stats : \E dt \in FrameDts : \E drift \in Drifts : CounterFrame(el, dt, drift)

(* The browser runs every scheduled animation frame.                       *)
SpecCountersFair ==
    /\ InitCountersPage /\ [][NextCounters]_vars
    /\ WF_vars(\E el \in Stats : \E dt \in FrameDts : \E drift \in Drifts :
                  CounterFrame(el, dt, drift))

(***************************************************************************)
(* C1: after any sequence of clicks on accordion triggers, at most one     *)
(* trigger has aria-expanded="true" and at most one panel has              *)
(* aria-hidden="false".                                                    *)
(***************************************************************************)
AccordionMutualExclusion ==
    /\ Cardinality({t \in Triggers : ariaExpanded[t] = "true"}) <= 1
    /\ Cardinality({p \in Panels : panelHidden[p] = "false"}) <= 1

(* A trigger is expanded, its panel is shown, and another trigger's panel  *)
(* that was expanded before has been collapsed to 0px.                     *)
AccordionOneOpen ==
    \E t \in Triggers, u \in Triggers :
        /\ t # u
        /\ ariaExpanded[t] = "true"
        /\ ariaControls[t] # NoPanel /\ panelHidden[ariaControls[t]] = "false"
        /\ ariaControls[u] # NoPanel /\ ariaControls[u] # ariaControls[t]
        /\ maxHeight[ariaControls[u]] = "0px"

(***************************************************************************)
(* C4: after updatePricing(b), for b = "yearly" and for b = "monthly",     *)
(* every pricing card that has an amount, a call-to-action and the         *)
(* attributes of cycle b shows that card's b price as its amount and that  *)
(* card's b link as its call-to-action href, and every cycle suffix reads  *)
(* "/mo billed yearly" for yearly and "/mo" for monthly.                   *)
(***************************************************************************)
PricingProjection ==
    \A c \in Cards :
        /\ (card[c].amount /\ card[c].cta /\ card[c].price[billing] \notin {Undefined, ""})
              => amountText[c] = card[c].price[billing]
        /\ (card[c].amount /\ card[c].cta /\ card[c].link[billing] \notin {Undefined, ""})
              => ctaHref[c] = card[c].link[billing]
        /\ card[c].cycle
              => cycleText[c] = (IF billing = "yearly" THEN "/mo billed yearly"
                                 ELSE IF billing = "monthly" THEN "/mo" ELSE "?")

(* updatePricing('yearly') has run and a card shows its yearly price and   *)
(* link.                                                                   *)
PricingYearlyShown ==
    /\ billing = "yearly"
    /\ \E c \in Cards : /\ card[c] = FullCard
                        /\ amountText[c] = "24"
                        /\ ctaHref[c] = "/checkout?plan=y"
                        /\ cycleText[c] = "/mo billed yearly"

(***************************************************************************)
(* C2: when a submit handler whose fields were all valid ends with         *)
(* success, every form field is reset, every field's error slot is         *)
(* emptied and the status region shows the success message; when it ends   *)
(* with failure, the field values are left as they are and the status      *)
(* region shows the generic failure message.  (The status region and the   *)
(* error slots are those the form has.)                                    *)
(***************************************************************************)
FormOutcome ==
    [][ /\ (hasStatusEl /\ formEvent' \in {"responseOk", "fallbackOk"})
              => /\ fieldValue' = defaultValue
                 /\ \A f \in Fields : hasErrorSlot[f] => fieldError'[f] = ""
                 /\ statusText' = "Message sent! We will reach out shortly. (Demo response)"
        /\ (hasStatusEl /\ formEvent' \in {"responseNotOk", "fallbackFailed"})
              => /\ fieldValue' = fieldValue
                 /\ statusText' = "Something went wrong. Please try again later. (Demo response)"
      ]_vars

(* A submission of typed-in values has just succeeded: the fields are back *)
(* to their defaults and the success message shows.                        *)
FormSucceeded ==
    /\ formEvent = "responseOk"
    /\ hasStatusEl
    /\ statusText = SuccessMsg
    /\ fieldValue = defaultValue
    /\ defaultValue["email"] = ""

(***************************************************************************)
(* C3: whenever the lightbox goes from closed to open and is later closed, *)
(* the element focused after the closing step is the element that was      *)
(* focused immediately before it went from closed to open.                 *)
(***************************************************************************)
LightboxFocusRestored ==
    [][(lightboxAriaHidden = "false" /\ lightboxAriaHidden' = "true")
          => activeElement' = focusBeforeOpen]_vars

(***************************************************************************)
(* C6: in every state after load, for any data-theme attribute of the      *)
(* markup, the value stored under 'luminaflow-theme' equals the document's *)
(* data-theme attribute and is "light" or "dark".                          *)
(***************************************************************************)
ThemeMirror ==
    hasThemeToggle => /\ storedTheme = dataTheme
                      /\ dataTheme \in {"light", "dark"}

(***************************************************************************)
(* C5: when a submit finds a field that fails constraint validation, each  *)
(* failing field's error slot shows its message ("This field is required." *)
(* for a missing value), no fetch is issued and the status region is left  *)
(* as it was.                                                              *)
(***************************************************************************)
InvalidSubmitNoFetch ==
    [][ (formEvent' \in {"invalid", "sent"}
           /\ \E f \in Fields : Validity(f, fieldValue[f]) # "valid")
          => /\ nFetch' = nFetch /\ nWait' = nWait
             /\ formEvent' = "invalid"
             /\ statusText' = statusText
             /\ \A f \in Fields :
                  hasErrorSlot[f] =>
                    /\ Validity(f, fieldValue[f]) = "valueMissing"
                          => fieldError'[f] = "This field is required."
                    /\ Validity(f, fieldValue[f]) = "typeMismatch"
                          => fieldError'[f] = "Please enter a valid value."
                    /\ Validity(f, fieldValue[f]) = "tooShort"
                          => fieldError'[f] = "Please correct this field."
      ]_vars

(* A submit with an empty name has just been refused.                      *)
InvalidSubmitRefused ==
    /\ formEvent = "invalid"
    /\ fieldValue["name"] = ""
    /\ hasErrorSlot["name"]
    /\ fieldError["name"] = "This field is required."
    /\ fieldValue["email"] = "ada@example.org"
    /\ nFetch = 0 /\ nWait = 0

(***************************************************************************)
(* C7, as claimed: between the moment a submit handler writes 'Sending...' *)
(* and the moment it writes its final status, no other submit handler      *)
(* starts and no input handler runs.                                       *)
(***************************************************************************)
NoHandlerInterleaving ==
    [][(nFetch + nWait > 0) => formEvent' \notin {"input", "invalid", "sent"}]_vars

(***************************************************************************)
(* C7, amended: a submit handler is suspended at its two awaits, and while *)
(* it is suspended input handlers and further submit handlers do run.      *)
(* Each piece between awaits runs to completion: a handler enters flight   *)
(* in the step that validated every field and wrote 'Sending...'; a final  *)
(* status is written only in the step in which one handler leaves flight;  *)
(* input handlers and refused submits leave requests and status alone.     *)
(***************************************************************************)
HandlersInterleaveOnlyAtAwaits ==
    [][ /\ (nFetch' + nWait' > nFetch + nWait)
              => /\ formEvent' = "sent"
                 /\ \A f \in Fields : Validity(f, fieldValue[f]) = "valid"
                 /\ fieldValue' = fieldValue
                 /\ hasStatusEl => statusText' = "Sending..."
        /\ (nFetch' + nWait' < nFetch + nWait)
              => /\ nFetch' + nWait' = nFetch + nWait - 1
                 /\ formEvent' \in {"responseOk", "responseNotOk", "fallbackOk",
                                    "fallbackFailed"}
                 /\ hasStatusEl => statusText' \in {SuccessMsg, FailureMsg}
        /\ (statusText' # statusText /\ statusText' # "Sending...")
              => nFetch' + nWait' = nFetch + nWait - 1
        /\ (formEvent' \in {"input", "invalid"})
              => /\ nFetch' = nFetch /\ nWait' = nWait
                 /\ statusText' = statusText
      ]_vars

(* Two submit handlers are in flight at once, and an input handler has     *)
(* just run.                                                               *)
TwoSubmitsInFlight ==
    /\ nFetch + nWait = 2
    /\ formEvent = "input"
    /\ statusText = SendingMsg

(***************************************************************************)
(* C8: whenever the status region reads 'Sending...', it later reads the   *)
(* success or the failure message, whatever the network does.              *)
(***************************************************************************)
SubmissionCompletes ==
    (statusText = "Sending...") ~> (statusText \in {SuccessMsg, FailureMsg})

(* A request was aborted or rejected and the fallback has written the      *)
(* final status over 'Sending...'.                                         *)
FallbackCompleted ==
    /\ formEvent \in {"fallbackOk", "fallbackFailed"}
    /\ statusText \in {SuccessMsg, FailureMsg}
    /\ nFetch = 0 /\ nWait = 0

(***************************************************************************)
(* C9: once the counter animation of a stat element with target T has been *)
(* triggered, its text eventually equals T (formatted) and stays equal to  *)
(* T, whatever the frame times and the floored intermediate values; and    *)
(* the animation is started at most once per element.                      *)
(***************************************************************************)
CounterDone(el) ==
    /\ startCount[el] > 0
    /\ ~framePending[el]
    /\ counterText[el] = toLocaleString(Number(targetAttr[el]))

CounterEndsAtTarget ==
    /\ \A el \in Stats : (startCount[el] > 0) ~> CounterDone(el)
    /\ [][\A el \in Stats : CounterDone(el) => CounterDone(el)']_vars
    /\ [](\A el \in Stats : startCount[el] <= 1)

(* An animated counter with target 1200 has run its frames and shows       *)
(* "1,200".                                                                *)
CounterFinished ==
    \E el \in Stats :
        /\ ~prefersReducedMotion
        /\ targetAttr[el] = <<1, 2, 0, 0>>
        /\ startCount[el] = 1 /\ ~framePending[el] /\ elapsed[el] >= duration
        /\ counterText[el] = "1,200"

(***************************************************************************)
(* C10: with prefers-reduced-motion, every [data-animate] element is       *)
(* visible from load on, no animation frame is ever scheduled, and a       *)
(* counter shows its markup text until it is triggered and its target from *)
(* then on: no intermediate value is displayed.                            *)
(***************************************************************************)
ReducedMotionSettles ==
    prefersReducedMotion =>
        /\ \A e \in Animated : isVisible[e]
        /\ \A el \in Stats :
             /\ ~framePending[el]
             /\ counterText[el] = IF startCount[el] > 0
                                  THEN toLocaleString(Number(targetAttr[el])) ELSE "0"

(* With reduced motion, a counter with target 1200 has been triggered.     *)
ReducedMotionCounterShown ==
    /\ prefersReducedMotion
    /\ \E el \in Stats : /\ targetAttr[el] = <<1, 2, 0, 0>>
                         /\ startCount[el] = 1
                         /\ counterText[el] = "1,200"
    /\ \A e \in Animated : isVisible[e]

(***************************************************************************)
(* C11: after the page is loaded again with the same storage and the       *)
(* markup's original data-theme attribute, the theme in effect and the     *)
(* stored value are the theme that was last selected with the toggle.      *)
(***************************************************************************)
ThemePersisted ==
    (themeEvent = "reload" /\ selectedTheme # Null)
        => /\ dataTheme = selectedTheme
           /\ storedTheme = selectedTheme

(***************************************************************************)
(* C12: a click on the billing option that is already active leaves the    *)
(* whole pricing state as it was: every button's is-active class and       *)
(* aria-pressed, every card's amount text and call-to-action href, every   *)
(* cycle suffix.                                                           *)
(***************************************************************************)
PricingNoOp ==
    [][billingEvent' = "active"
          => /\ btnActive' = btnActive
             /\ btnPressed' = btnPressed
             /\ amountText' = amountText
             /\ ctaHref' = ctaHref
             /\ cycleText' = cycleText]_vars

(* The yearly option was selected and has just been clicked again.         *)
PricingActiveClicked ==
    /\ billingEvent = "active"
    /\ billing = "yearly"
    /\ btnActive["yearly"] /\ btnPressed["yearly"] = "true"
    /\ \E c \in Cards : card[c] = FullCard /\ amountText[c] = "24"

(***************************************************************************)
(* C13: closeMobileMenu applied twice gives the state it gives applied     *)
(* once, and applied to the closed menu (aria-expanded "false", no         *)
(* is-active, no is-open) it changes none of the three.                    *)
(***************************************************************************)
MenuClosed == navAriaExpanded = "false" /\ ~navIsActive /\ ~menuIsOpen

CloseMenuIdempotent ==
    /\ [](closeMobileMenu(closeMobileMenu(MenuState)) = closeMobileMenu(MenuState))
    /\ [](MenuClosed => closeMobileMenu(MenuState) = MenuState)
    /\ [][(menuEvent' = "linkClosed" /\ MenuClosed)
            => /\ navAriaExpanded' = navAriaExpanded
               /\ navIsActive' = navIsActive
               /\ menuIsOpen' = menuIsOpen]_vars

(* A link of the closed menu has just been clicked: closeMobileMenu ran   *)
(* on the closed menu.                                                     *)
MenuClosedTwice ==
    /\ menuEvent = "linkClosed"
    /\ MenuClosed
    /\ menuItemCount = NumNavLinks + 1
    /\ activeElement = MenuItemEl(1)

(***************************************************************************)
(* C19: from the closed state, after any toggle clicks and menu link       *)
(* clicks, aria-expanded of the toggle is "true" iff the menu has class    *)
(* is-open iff the toggle has class is-active.                             *)
(***************************************************************************)
MenuAgreement ==
    /\ (navAriaExpanded = "true") <=> menuIsOpen
    /\ menuIsOpen <=> navIsActive

(* The open menu has just been closed by a click on one of its links.      *)
MenuClosedByLink ==
    /\ menuEvent = "linkOpen"
    /\ navAriaExpanded = "false" /\ ~navIsActive /\ ~menuIsOpen

(***************************************************************************)
(* C18: while the menu is open, Tab on its last focusable element moves    *)
(* the focus to its first and Shift+Tab on the first moves it to the last, *)
(* the default suppressed in both cases; while the menu is closed the Tab  *)
(* handler moves no focus and suppresses nothing.                          *)
(***************************************************************************)
MenuFocusTrap ==
    [][ /\ (menuEvent' = "tab" /\ menuIsOpen /\ menuItemCount > 0
               /\ activeElement = MenuItemEl(menuItemCount))
              => /\ activeElement' = MenuItemEl(1)
                 /\ keyPrevented'
        /\ (menuEvent' = "shiftTab" /\ menuIsOpen /\ menuItemCount > 0
               /\ activeElement = MenuItemEl(1))
              => /\ activeElement' = MenuItemEl(menuItemCount)
                 /\ keyPrevented'
        /\ (menuEvent' \in {"tab", "shiftTab"} /\ ~menuIsOpen)
              => /\ activeElement' = activeElement
                 /\ ~keyPrevented'
      ]_vars

(* Shift+Tab on the first of three menu links has wrapped to the last.     *)
MenuFocusWrapped ==
    /\ menuEvent = "shiftTab"
    /\ menuIsOpen
    /\ keyPrevented
    /\ menuItemCount = NumNavLinks + 1
    /\ activeElement = MenuItemEl(NumNavLinks + 1)

(***************************************************************************)
(* C14: for distinct triggers A and B, each with a panel of its own, after *)
(* activating A and then B, A's aria-expanded is "false" and A's panel     *)
(* max-height is "0px", B's aria-expanded is "true" and B's panel          *)
(* max-height is the scroll height of B's panel.                           *)
(***************************************************************************)
AccordionAThenB ==
    \A A \in Triggers, B \in Triggers :
        (A # B /\ prevClicked = A /\ lastClicked = B)
          => /\ ariaExpanded[A] = "false"
             /\ ariaExpanded[B] = "true"
             /\ (ariaControls[B] # NoPanel)
                   => maxHeight[ariaControls[B]] = Px(scrollHeight[ariaControls[B]])
             /\ (ariaControls[A] # NoPanel /\ ariaControls[A] # ariaControls[B])
                   => maxHeight[ariaControls[A]] = "0px"

(* Trigger 1 and then trigger 2 were activated: panel 1 is back at 0px and *)
(* panel 2 is at its scroll height.                                        *)
AccordionSecondOpen ==
    /\ prevClicked = 1 /\ lastClicked = 2
    /\ ariaControls[1] = 1 /\ ariaControls[2] = 2
    /\ scrollHeight[2] = 120
    /\ ariaExpanded[1] = "false" /\ maxHeight[1] = "0px"
    /\ ariaExpanded[2] = "true" /\ maxHeight[2] = "120px"

(***************************************************************************)
(* C15, as claimed: the failure message is written to the status region    *)
(* only by the step that ends the 600 ms fallback wait with a failed draw. *)
(***************************************************************************)
FailureOnlyViaFallback ==
    [][(statusText' = FailureMsg /\ statusText # FailureMsg)
          => formEvent' = "fallbackFailed"]_vars

(***************************************************************************)
(* C15, amended: the failure message is written by two steps only, the end *)
(* of the fallback wait with a failed draw and the arrival of a response   *)
(* that is not ok, which passes through no fallback.  A rejected or        *)
(* aborted request writes nothing and enters the fallback wait.            *)
(***************************************************************************)
FailureViaFallbackOrResponse ==
    [][ /\ (statusText' = FailureMsg /\ statusText # FailureMsg)
              => formEvent' \in {"fallbackFailed", "responseNotOk"}
        /\ (formEvent' = "catch")
              => /\ statusText' = statusText
                 /\ nFetch' = nFetch - 1
                 /\ nWait' = nWait + 1
        /\ (formEvent' = "fallbackFailed")
              => /\ nWait' = nWait - 1 /\ nFetch' = nFetch
                 /\ hasStatusEl => statusText' = FailureMsg
        /\ (formEvent' = "responseNotOk")
              => /\ nFetch' = nFetch - 1 /\ nWait' = nWait
                 /\ hasStatusEl => statusText' = FailureMsg
      ]_vars

(* A response that is not ok has just put the failure message over         *)
(* 'Sending...', with no fallback wait in between.                         *)
FailureWithoutFallback ==
    /\ formEvent = "responseNotOk"
    /\ statusText = FailureMsg
    /\ nFetch = 0 /\ nWait = 0
    /\ fieldValue["email"] = "ada@example.org"

(***************************************************************************)
(* C16: after the step that closes the lightbox, the image source and alt  *)
(* are empty, the caption is empty and the captured last-focused reference *)
(* is null.                                                                *)
(***************************************************************************)
LightboxClearedOnClose ==
    [][(lightboxAriaHidden = "false" /\ lightboxAriaHidden' = "true")
          => /\ lightboxSrc' = ""
             /\ lightboxAlt' = ""
             /\ lightboxCaptionText' = ""
             /\ lastFocusedElement' = Null]_vars

(***************************************************************************)
(* C17: an observed [data-animate] element becomes visible in at most one  *)
(* step: once is-visible is set it is never removed, the step that sets it *)
(* stops observing the element, an element no longer observed is never     *)
(* observed again, and no later step changes the visible element.          *)
(***************************************************************************)
RevealOneShot ==
    [][\A e \in Animated :
          /\ isVisible[e] => isVisible'[e]
          /\ (~isVisible[e] /\ isVisible'[e]) => (revealObserved[e] /\ ~revealObserved'[e])
          /\ ~revealObserved[e] => ~revealObserved'[e]
          /\ isVisible[e] => transitionDelay'[e] = transitionDelay[e]
       ]_vars

(* Without reduced motion, an element with a delay attribute has been      *)
(* revealed and is no longer observed, while another is still pending.     *)
RevealedOnce ==
    /\ ~prefersReducedMotion
    /\ \E e \in Animated, f \in Animated :
          /\ isVisible[e] /\ ~revealObserved[e] /\ transitionDelay[e] = "200ms"
          /\ ~isVisible[f] /\ revealObserved[f]

(***************************************************************************)
(* C20: after any sequence of thumbnail activations, close-button clicks,  *)
(* backdrop clicks and Escape presses, body overflow is 'hidden' if and    *)
(* only if aria-hidden of the lightbox is "false".                         *)
(***************************************************************************)
ScrollLockMatchesLightbox ==
    (bodyOverflow = "hidden") <=> (lightboxAriaHidden = "false")

(* The lightbox was opened and has been closed again: the page scrolls.    *)
ScrollLockReleased ==
    /\ lastFocusedElement # Null
    /\ lightboxAriaHidden = "true"
    /\ bodyOverflow = ""
    /\ lightboxSrc = ""

=============================================================================
